---- MODULE Spec2Model ----
\* A model of WGT::cmdParse (cmdparse.h) and of the string_utils helpers it
\* calls (string_utils.h).  A std::string is a sequence of one-character
\* strings; the std::set<cmdOption> is the sequence of its elements in
\* iteration order (ascending under cmdOption::operator<).  call records the
\* last public call with its arguments and return value; crashed says that
\* undefined behaviour in parseOptions has ended the process.
EXTENDS Integers, Sequences, FiniteSets, TLC

VARIABLES m_executable_name, m_arguments, m_parameter_options, m_errors,
          call, crashed

vars == <<m_executable_name, m_arguments, m_parameter_options, m_errors,
          call, crashed>>

\* ------------------------------------------------------------------ bounds
\* Most tokens m_arguments may hold; init is called with at most as many
\* tokens after argv[0] as still fit.
MaxArguments == 2
\* Most entries m_errors may hold before a call that can log is made.
MaxErrors == 1

\* -------------------------------------------------------------- characters
\* ASCII codes of the characters that occur in the inputs.
Ascii ==
    (" " :> 32) @@ ("\"" :> 34) @@ ("-" :> 45) @@ ("2" :> 50) @@ ("3" :> 51) @@
    ("6" :> 54) @@ (":" :> 58) @@ ("=" :> 61) @@ ("?" :> 63) @@
    ("B" :> 66) @@ ("F" :> 70) @@ ("O" :> 79) @@ ("U" :> 85) @@
    ("a" :> 97) @@ ("b" :> 98) @@ ("f" :> 102) @@ ("o" :> 111) @@
    ("t" :> 116) @@ ("u" :> 117)

\* std::tolower on one character.
ToLower(c) ==
    CASE c = "B" -> "b"
      [] c = "F" -> "f"
      [] c = "O" -> "o"
      [] c = "U" -> "u"
      [] OTHER -> c

\* std::isspace on one character.
IsSpace(c) == c = " "

\* string_utils::make_lower(const std::string&)
make_lower(s) == [i \in 1..Len(s) |-> ToLower(s[i])]

\* std::string operator< : lexicographic on the character codes.
RECURSIVE StrLess(_, _)
StrLess(a, b) ==
    IF b = <<>> THEN FALSE
    ELSE IF a = <<>> THEN TRUE
    ELSE IF Ascii[a[1]] < Ascii[b[1]] THEN TRUE
    ELSE IF Ascii[a[1]] > Ascii[b[1]] THEN FALSE
    ELSE StrLess(Tail(a), Tail(b))

\* string_utils::is_blank(const std::string&)
is_blank(s) == \A i \in 1..Len(s) : IsSpace(s[i])

\* string_utils::ltrim(std::string&, char): drop every leading c.
RECURSIVE ltrim_char(_, _)
ltrim_char(s, c) ==
    IF s # <<>> /\ s[1] = c THEN ltrim_char(Tail(s), c) ELSE s

\* The erase of the trailing run of c in string_utils::trim(std::string&, char).
RECURSIVE rtrim_char(_, _)
rtrim_char(s, c) ==
    IF s # <<>> /\ s[Len(s)] = c THEN rtrim_char(SubSeq(s, 1, Len(s) - 1), c) ELSE s

\* string_utils::ltrim(std::string&): drop the leading white space.
RECURSIVE ltrim(_)
ltrim(s) ==
    IF s # <<>> /\ IsSpace(s[1]) THEN ltrim(Tail(s)) ELSE s

\* The erase of the trailing white space in string_utils::trim(std::string&, ' ').
RECURSIVE rtrim(_)
rtrim(s) ==
    IF s # <<>> /\ IsSpace(s[Len(s)]) THEN rtrim(SubSeq(s, 1, Len(s) - 1)) ELSE s

\* trim that takes at most one c from the front and one from the back.
trimOneLayer(s, c) ==
    IF c = " " THEN rtrim(ltrim(s))
    ELSE LET front == IF s # <<>> /\ s[1] = c THEN Tail(s) ELSE s
         IN  IF front # <<>> /\ front[Len(front)] = c
             THEN SubSeq(front, 1, Len(front) - 1)
             ELSE front

\* string_utils::trim(std::string& s, char c = ' ')
trim(s, c) ==
    IF c = " " THEN rtrim(ltrim(s)) ELSE rtrim_char(ltrim_char(s, c), c)

\* ---------------------------------------------------------------- cmdOption
\* cmdOption::cmdOption(optionName, defaultValue, optionNameShort)
cmdOption(optionName, defaultValue, optionNameShort) ==
    [longName     |-> optionName,
     shortName    |-> IF is_blank(optionNameShort) THEN optionName ELSE optionNameShort,
     defaultValue |-> defaultValue,
     paramValue   |-> <<>>]

\* operator< comparing the long names as written, without make_lower.
OptionLessExact(a, b) == StrLess(a.longName, b.longName)

\* cmdOption::operator<
OptionLess(a, b) == StrLess(make_lower(a.longName), make_lower(b.longName))

\* The text `ss >> retVal' extracts: the first white-space delimited word.
RECURSIVE FirstWord(_)
FirstWord(s) ==
    IF s = <<>> \/ IsSpace(s[1]) THEN <<>> ELSE <<s[1]>> \o FirstWord(Tail(s))

\* cmdOption::get_value<std::string>()
get_value(o) == FirstWord(ltrim(o.paramValue))

\* ---------------------------------------------------- std::set<cmdOption>
\* find comparing the long names as written.
SetFindExact(set, key) ==
    IF \E i \in 1..Len(set) : set[i].longName = key.longName
    THEN CHOOSE i \in 1..Len(set) : set[i].longName = key.longName
    ELSE 0

\* std::set::find: the index of the element equivalent to key, 0 for end().
SetFind(set, key) ==
    IF \E i \in 1..Len(set) : ~OptionLess(set[i], key) /\ ~OptionLess(key, set[i])
    THEN CHOOSE i \in 1..Len(set) : ~OptionLess(set[i], key) /\ ~OptionLess(key, set[i])
    ELSE 0

\* insert that keeps the order of insertion: a new element goes to the back.
SetInsertBack(set, o) ==
    IF \E i \in 1..Len(set) : make_lower(set[i].longName) = make_lower(o.longName)
    THEN set
    ELSE Append(set, o)

\* std::set::insert: no change when an equivalent element is present,
\* otherwise the element goes after the elements less than it.
SetInsert(set, o) ==
    IF SetFind(set, o) # 0 THEN set
    ELSE LET n == Cardinality({i \in 1..Len(set) : OptionLess(set[i], o)})
         IN SubSeq(set, 1, n) \o <<o>> \o SubSeq(set, n + 1, Len(set))

\* std::set::erase(iterator)
SetErase(set, i) == SubSeq(set, 1, i - 1) \o SubSeq(set, i + 1, Len(set))

\* ------------------------------------------------------------------ inputs
\* The option declarations the callers make: "buf" (default "2", short "b"),
\* "BUF" (default "5", no short name) and "Out" (default "f", short "o").
Decls ==
    { cmdOption(<<"b","u","f">>, <<"2">>, <<"b">>),
      cmdOption(<<"B","U","F">>, <<"5">>, <<>>),
      cmdOption(<<"O","u","t">>, <<"f">>, <<"o">>) }

\* The tokens of argv[1..]:  --buf:23  --Out  --Out=  -b 6  and  "a b"  with
\* a blank before and after it.
Tokens ==
    { <<"-","-","b","u","f",":","2","3">>,
      <<"-","-","O","u","t">>,
      <<"-","-","O","u","t","=">>,
      <<"-","b"," ","6">>,
      <<" ","\"","a"," ","b","\""," ">> }

\* The name of the executable, argv[0].
ExeName == <<"a","p","p">>

RECURSIVE SeqsUpTo(_, _)
SeqsUpTo(S, n) ==
    IF n = 0 THEN {<<>>}
    ELSE LET shorter == SeqsUpTo(S, n - 1)
         IN shorter \cup {Append(q, x) : q \in shorter, x \in S}

\* What a read past the end of fullOptionString may append to value.
GarbageValues == {<<>>, <<"?">>}

\* ----------------------------------------------------------------- cmdParse
\* logError's argument: the literal text and the string appended to it.
Error(text, name) == <<text, name>>

\* The lambda isOptionPrefix of parseOptions; s[0] of an empty string is '\0'.
isOptionPrefix(s) == Len(s) > 0 /\ s[1] = "-"

\* std::find_if(from, m_arguments.end(), isOptionPrefix); Len(args) + 1 is end().
FindPrefix(args, from) ==
    IF \E i \in from..Len(args) : isOptionPrefix(args[i])
    THEN CHOOSE i \in from..Len(args) :
            isOptionPrefix(args[i]) /\ \A j \in from..(i - 1) : ~isOptionPrefix(args[j])
    ELSE Len(args) + 1

\* The loop `fullOptionString += *start' over [start, end).
RECURSIVE Combine(_, _, _)
Combine(args, start, end) ==
    IF start >= end THEN <<>> ELSE args[start] \o Combine(args, start + 1, end)

\* useFullOptionName; fullOptionString[1] of a one-character string is '\0'.
UseFullOptionName(full) ==
    full[1] = "-" /\ Len(full) >= 2 /\ full[2] = "-"

\* The find_if for the first of ' ', ':', '='; Len(s) + 1 is end().
ValuePos(s) ==
    IF \E i \in 1..Len(s) : s[i] \in {" ", ":", "="}
    THEN CHOOSE i \in 1..Len(s) :
            s[i] \in {" ", ":", "="} /\ \A j \in 1..(i - 1) : s[j] \notin {" ", ":", "="}
    ELSE Len(s) + 1

\* cmdParse::getFullOptionName
getFullOptionName(set, shortName) ==
    IF \E i \in 1..Len(set) : set[i].shortName = shortName
    THEN set[CHOOSE i \in 1..Len(set) :
                set[i].shortName = shortName
                /\ \A j \in 1..(i - 1) : set[j].shortName # shortName].longName
    ELSE <<>>

\* The key cmdOption(name) that find() is given.
Key(name) == cmdOption(name, <<>>, <<>>)

\* The update done by inserting a fresh cmdOption of the same long name.
UpdateOptionRebuilt(set, i, value) ==
    LET fresh == [longName |-> set[i].longName, shortName |-> set[i].longName,
                  defaultValue |-> <<>>, paramValue |-> value]
    IN  SubSeq(set, 1, i - 1) \o <<fresh>> \o SubSeq(set, i + 1, Len(set))

\* Lines 369-372: copy the option found, set paramValue, erase, insert.
UpdateOption(set, i, value) ==
    SetInsert(SetErase(set, i), [set[i] EXCEPT !.paramValue = value])

Returned(ret, set, errs) ==
    [status |-> "returned", ret |-> ret, options |-> set, errors |-> errs]

Crashed(set, errs) ==
    [status |-> "crashed", ret |-> FALSE, options |-> set, errors |-> errs]

\* Lines 348-372 for one segment whose name and value have been extracted:
\* the set of outcomes of the rest of parseOptions.
RECURSIVE ParseFrom(_, _, _, _)
Resolve(args, next, set, errs, useFull, rawName, rawValue) ==
    LET value == trim(trim(rawValue, " "), "\"")
        name  == IF useFull THEN trim(rawName, " ")
                 ELSE getFullOptionName(set, trim(rawName, " "))
        itF   == SetFind(set, Key(name))
    IN  IF ~useFull /\ name = <<>>
        THEN {Returned(FALSE, set, Append(errs, Error("Option not found: ", name)))}
        ELSE IF itF = 0
        THEN {Returned(FALSE, set, Append(errs, Error("Option not found: ", name)))}
        ELSE ParseFrom(args, next, UpdateOption(set, itF, value), errs)

\* cmdParse::parseOptions from the cursor on: the set of its outcomes.  Two
\* steps have undefined behaviour: `start + 1' when start is end() (the range
\* is checked or walked by find_if before the break), and `value_iterator + 1'
\* when no delimiter was found (the value loop starts past end()).
ParseFrom(args, cursor, set, errs) ==
    IF cursor = Len(args) + 1 THEN {Returned(TRUE, set, errs)}
    ELSE LET start == FindPrefix(args, cursor) IN
         IF start = Len(args) + 1
         THEN {Returned(TRUE, set, errs), Crashed(set, errs)}
         ELSE LET end      == FindPrefix(args, start + 1)
                  full     == Combine(args, start, end)
                  stripped == ltrim_char(full, "-")
                  vi       == ValuePos(stripped)
                  rawName  == SubSeq(stripped, 1, vi - 1)
              IN  IF vi = Len(stripped) + 1
                  THEN {Crashed(set, errs)} \cup
                       UNION { Resolve(args, end, set, errs, UseFullOptionName(full),
                                       rawName, g) : g \in GarbageValues }
                  ELSE Resolve(args, end, set, errs, UseFullOptionName(full),
                               rawName, SubSeq(stripped, vi + 1, Len(stripped)))

parseOptions(args, set, errs) == ParseFrom(args, 1, set, errs)

\* The record of the last call made: its name, arguments and return value.
Call(op, argc, argv, opt, ret) ==
    [op |-> op, argc |-> argc, argv |-> argv, opt |-> opt, ret |-> ret]

NoOption == cmdOption(<<>>, <<>>, <<>>)

\* ----------------------------------------------------------------- queries
get_arguments == m_arguments

get_param_option_count == Len(m_parameter_options)

has_param_option(optionName) == SetFind(m_parameter_options, Key(optionName)) # 0

get_param_option(optionStr) ==
    LET itF == SetFind(m_parameter_options, Key(optionStr))
    IN  IF itF = 0 THEN NoOption ELSE m_parameter_options[itF]

\* The help string as the sequence of the strings it is concatenated from.
get_helpstring ==
    <<m_executable_name, " [options]\n where options are:\n">>
    \o [i \in 1..Len(m_parameter_options) |->
            <<"    -", m_parameter_options[i].shortName, ", --",
              m_parameter_options[i].longName, "\n">>]
    \o <<"\n\n(version 1.0)">>

has_errors == m_errors # <<>>

get_errors == m_errors

\* ------------------------------------------------------------------ actions
Init ==
    /\ m_executable_name = <<>>
    /\ m_arguments = <<>>
    /\ m_parameter_options = <<>>
    /\ m_errors = <<>>
    /\ call = Call("none", 0, <<>>, NoOption, FALSE)
    /\ crashed = FALSE

\* cmdParse::add_param_option
add_param_option(paramOption) ==
    /\ ~crashed
    /\ Len(m_errors) < MaxErrors
    /\ LET second == SetFind(m_parameter_options, paramOption) = 0 IN
       /\ m_parameter_options' = SetInsert(m_parameter_options, paramOption)
       /\ m_errors' = IF ~second
                      THEN Append(m_errors,
                                  Error("Option already exists: ", paramOption.longName))
                      ELSE m_errors
       /\ call' = Call("add_param_option", 0, <<>>, paramOption, second)
    /\ UNCHANGED <<m_executable_name, m_arguments, crashed>>

\* The test `argc < 0' in place of `argc <= 0'.
NoArgumentsStrict(argc) == argc < 0

\* The test of init's first line.
NoArguments(argc) == argc <= 0

\* The arguments init appends: argv[1..argc), each trimmed.
TrimmedArgs(argc, argv) == [n \in 1..(argc - 1) |-> trim(argv[n + 1], " ")]

\* cmdParse::init; argv is 1-based here, so argv[1] is the C++ argv[0].
init(argc, argv) ==
    /\ ~crashed
    /\ Len(m_errors) < MaxErrors
    /\ IF NoArguments(argc)
       THEN /\ m_errors' = Append(m_errors, Error("No arguments given to application", <<>>))
            /\ call' = Call("init", argc, argv, NoOption, FALSE)
            /\ UNCHANGED <<m_executable_name, m_arguments, m_parameter_options, crashed>>
       ELSE /\ Len(m_arguments) + (argc - 1) <= MaxArguments
            /\ m_executable_name' = argv[1]
            /\ m_arguments' = m_arguments \o TrimmedArgs(argc, argv)
            /\ \E out \in parseOptions(m_arguments', m_parameter_options, m_errors) :
                  /\ m_parameter_options' = out.options
                  /\ m_errors' = out.errors
                  /\ crashed' = (out.status = "crashed")
                  /\ call' = Call("init", argc, argv, NoOption, out.ret)

\* cmdParse::clear_errors
clear_errors ==
    /\ ~crashed
    /\ m_errors # <<>>
    /\ m_errors' = <<>>
    /\ call' = Call("clear_errors", 0, <<>>, NoOption, FALSE)
    /\ UNCHANGED <<m_executable_name, m_arguments, m_parameter_options, crashed>>

\* The argument vectors of the init calls: argv[0] and up to MaxArguments tokens.
Argvs == {<<ExeName>> \o toks : toks \in SeqsUpTo(Tokens, MaxArguments)}

\* The argument vector handed over with a count that is not positive.
NoArgvs == {<<ExeName, <<"-","-","b","u","f",":","2","3">> >>}

Next ==
    \/ \E paramOption \in Decls : add_param_option(paramOption)
    \/ \E argv \in Argvs : init(Len(argv), argv)
    \/ \E argv \in NoArgvs : \E argc \in {-1, 0} : init(argc, argv)
    \/ clear_errors

Spec == Init /\ [][Next]_vars

\* ------------------------------------------------- the segments of a parse
\* The segments parseOptions cuts args into, each with the name and value it
\* extracts: long says the segment starts with "--", delimited that one of
\* ' ', ':', '=' follows the name.
RECURSIVE SegmentsFrom(_, _)
SegmentsFrom(args, cursor) ==
    IF cursor > Len(args) THEN <<>>
    ELSE LET start == FindPrefix(args, cursor) IN
         IF start = Len(args) + 1 THEN <<>>
         ELSE LET end      == FindPrefix(args, start + 1)
                  full     == Combine(args, start, end)
                  stripped == ltrim_char(full, "-")
                  vi       == ValuePos(stripped)
              IN  << [long      |-> UseFullOptionName(full),
                      name      |-> trim(SubSeq(stripped, 1, vi - 1), " "),
                      delimited |-> vi <= Len(stripped),
                      value     |-> trim(trim(SubSeq(stripped, vi + 1, Len(stripped)), " "),
                                         "\"")] >>
                  \o SegmentsFrom(args, end)

Segments(args) == SegmentsFrom(args, 1)

\* The index in set of the option a segment names, 0 when it names none: a
\* long name equal after lower-casing both, or the first equal short name.
Target(set, seg) ==
    LET hits == IF seg.long
                THEN {i \in 1..Len(set) :
                        make_lower(set[i].longName) = make_lower(seg.name)}
                ELSE {i \in 1..Len(set) : set[i].shortName = seg.name}
    IN  IF hits = {} THEN 0 ELSE CHOOSE i \in hits : \A j \in hits : i <= j

\* set after the first n segments have each left their value in the option
\* they name; a segment without delimiter leaves the empty value.
RECURSIVE Assign(_, _, _)
Assign(set, segs, n) ==
    IF n = 0 THEN set
    ELSE [Assign(set, segs, n - 1) EXCEPT ![Target(set, segs[n])].paramValue = segs[n].value]

\* The last entry of the error list.
LastError == m_errors[Len(m_errors)]

\* --------------------------------------------------------------- the claims
\* The number of leading segments that name a declared option.
Parsed(set, segs) ==
    LET bad == {k \in 1..Len(segs) : Target(set, segs[k]) = 0}
    IN  IF bad = {} THEN Len(segs) ELSE (CHOOSE k \in bad : \A j \in bad : k <= j) - 1

\* C1: when segment n + 1 is the first segment of the parsed arguments that
\* names no declared option, init returns false, appends the one error
\* "Option not found: ...", the options named by segments 1..n hold the values
\* of those segments and no other option has changed.
C1_FailFast ==
    [][ (call'.op = "init" /\ call'.argc >= 1) =>
          \A segs \in {Segments(m_arguments')} :
          \A n \in {Parsed(m_parameter_options, segs)} :
             n < Len(segs) =>
                /\ ~crashed'
                /\ call'.ret = FALSE
                /\ Len(m_errors') = Len(m_errors) + 1
                /\ SubSeq(m_errors', 1, Len(m_errors)) = m_errors
                /\ m_errors'[Len(m_errors')][1] = "Option not found: "
                /\ m_parameter_options' = Assign(m_parameter_options, segs, n)
      ]_vars

\* C2: add_param_option with a long name that equals, after lower-casing, the
\* long name of a declared option returns false, leaves the option count and
\* the declared entry as they were and appends the one error "Option already
\* exists: <name>"; with any other long name it inserts the option, returns
\* true and appends no error.
C2_DuplicateRejected ==
    [][ call'.op = "add_param_option" =>
          LET o   == call'.opt
              dup == \E i \in 1..Len(m_parameter_options) :
                        make_lower(m_parameter_options[i].longName) = make_lower(o.longName)
          IN  IF dup
              THEN /\ call'.ret = FALSE
                   /\ Len(m_parameter_options') = Len(m_parameter_options)
                   /\ m_parameter_options' = m_parameter_options
                   /\ m_errors' = Append(m_errors,
                                         Error("Option already exists: ", o.longName))
              ELSE /\ call'.ret = TRUE
                   /\ m_errors' = m_errors
                   /\ Len(m_parameter_options') = Len(m_parameter_options) + 1
                   /\ {m_parameter_options'[i] : i \in 1..Len(m_parameter_options')}
                        = {m_parameter_options[i] : i \in 1..Len(m_parameter_options)}
                          \cup {o}
      ]_vars

\* A declaration was rejected whose long name differs from the declared one
\* only by case, and the declared one holds a parsed value.
C2_Witness ==
    /\ call.op = "add_param_option"
    /\ call.ret = FALSE
    /\ m_errors # <<>>
    /\ LastError = Error("Option already exists: ", call.opt.longName)
    /\ \E i \in 1..Len(m_parameter_options) :
          /\ m_parameter_options[i].longName # call.opt.longName
          /\ make_lower(m_parameter_options[i].longName) = make_lower(call.opt.longName)
          /\ m_parameter_options[i].paramValue # <<>>

\* C3: init with an argument count <= 0 returns false, appends the one error
\* "No arguments given to application" and changes neither the executable
\* name nor the argument list nor any option.
C3_NoArguments ==
    [][ (call'.op = "init" /\ call'.argc <= 0) =>
          /\ call'.ret = FALSE
          /\ ~crashed'
          /\ m_errors' = Append(m_errors, Error("No arguments given to application", <<>>))
          /\ m_executable_name' = m_executable_name
          /\ m_arguments' = m_arguments
          /\ m_parameter_options' = m_parameter_options
      ]_vars

\* init failed on a count of 0 although argv held a token naming a declared
\* option; the option has no value and no executable name was recorded.
C3_Witness ==
    /\ call.op = "init"
    /\ call.argc = 0
    /\ Len(call.argv) = 2
    /\ call.ret = FALSE
    /\ m_errors # <<>>
    /\ LastError = Error("No arguments given to application", <<>>)
    /\ m_executable_name = <<>>
    /\ m_arguments = <<>>
    /\ \E i \in 1..Len(m_parameter_options) :
          /\ Target(m_parameter_options, Segments(<<call.argv[2]>>)[1]) = i
          /\ m_parameter_options[i].paramValue = <<>>

\* The long names has_param_option and get_param_option are asked about.
QueryNames ==
    { <<"b","u","f">>, <<"B","U","F">>, <<"B","u","f">>,
      <<"O","u","t">>, <<"o","U","t">>, <<"b","u">>, <<"f","u","b">> }

\* C4: an init call with argc >= 1 whose tokens name no undeclared option
\* returns true whenever it returns, and get_arguments() then holds the
\* argc - 1 trimmed tokens argv[1..argc) of that call and nothing else.
C4_FreshSession ==
    ( /\ call.op = "init"
      /\ call.argc >= 1
      /\ ~crashed
      /\ \A segs \in {Segments(TrimmedArgs(call.argc, call.argv))} :
            \A k \in 1..Len(segs) : Target(m_parameter_options, segs[k]) # 0 )
    => /\ call.ret
       /\ Len(get_arguments) = call.argc - 1
       /\ get_arguments = TrimmedArgs(call.argc, call.argv)

\* C5: after a parse, get_value<std::string> of an option that has a default
\* and that no segment named is its default value, and of an option whose
\* last segment gave a value it is that value.
C5_DefaultAtRead ==
    (call.op = "init" /\ call.ret /\ ~crashed) =>
       \A segs \in {Segments(m_arguments)} :
       \A i \in 1..Len(m_parameter_options) :
       \A o \in {get_param_option(m_parameter_options[i].longName)} :
       \A named \in {{k \in 1..Len(segs) : Target(m_parameter_options, segs[k]) = i}} :
          /\ (named = {} /\ o.defaultValue # <<>>) => get_value(o) = o.defaultValue
          /\ named # {} =>
                LET last == CHOOSE k \in named : \A j \in named : j <= k
                IN  (segs[last].delimited /\ segs[last].value # <<>>)
                       => get_value(o) = segs[last].value

\* C6: when the first parse of an instance is given the name of a declared
\* option as one token ("--longName" or "-x") and a value, not starting with
\* '-', as the next token, init returns true and the option holds the value
\* token, as it would for "--longName=value" in one token.
C6_SpaceDelimited ==
    \A args \in {TrimmedArgs(call.argc, call.argv)} :
    ( /\ call.op = "init"
      /\ call.argc = 3
      /\ m_arguments = args
      /\ isOptionPrefix(args[1])
      /\ ~isOptionPrefix(args[2])
      /\ ~Segments(<<args[1]>>)[1].delimited
      /\ Target(m_parameter_options, Segments(<<args[1]>>)[1]) # 0 )
    => /\ ~crashed
       /\ call.ret
       /\ m_parameter_options[Target(m_parameter_options, Segments(<<args[1]>>)[1])].paramValue
            = trim(args[2], "\"")

\* C7: has_param_option(N) is true exactly when N equals a declared long name
\* after lower-casing both, get_param_option(N) then returns that option as it
\* was declared, and init matches a long-form segment to an option by the
\* same rule: it returns true exactly when every segment names a declared
\* option, and a delimited long-form segment leaves its value in the option
\* whose lower-cased long name equals its lower-cased name.
C7_CaseInsensitive ==
    /\ \A N \in QueryNames :
          LET hits == {i \in 1..Len(m_parameter_options) :
                         make_lower(m_parameter_options[i].longName) = make_lower(N)}
          IN  \A got \in {get_param_option(N)} :
              /\ has_param_option(N) <=> hits # {}
              /\ hits # {} =>
                    /\ got \in {m_parameter_options[i] : i \in hits}
                    /\ \E d \in Decls :
                          /\ d.longName = got.longName
                          /\ d.shortName = got.shortName
                          /\ d.defaultValue = got.defaultValue
              /\ hits = {} => got = NoOption
    /\ (call.op = "init" /\ call.argc >= 1 /\ ~crashed) =>
          \A segs \in {Segments(m_arguments)} :
          \A target \in {[k \in 1..Len(segs) |-> Target(m_parameter_options, segs[k])]} :
          \A n \in {Parsed(m_parameter_options, segs)} :
             /\ call.ret <=> n = Len(segs)
             /\ \A k \in 1..n :
                   ( /\ segs[k].long
                     /\ segs[k].delimited
                     /\ \A j \in (k + 1)..n : target[j] # target[k] )
                   => m_parameter_options[target[k]].paramValue = segs[k].value

\* init returned true after matching a long-form segment to an option whose
\* declared long name is written in another case, and a query in a third
\* case finds that option.
C7_Witness ==
    /\ call.op = "init"
    /\ call.ret
    /\ ~crashed
    /\ \E k \in 1..Len(Segments(m_arguments)) :
          LET seg == Segments(m_arguments)[k]
              i   == Target(m_parameter_options, seg)
          IN  /\ seg.long
              /\ seg.delimited
              /\ i # 0
              /\ m_parameter_options[i].longName # seg.name
              /\ m_parameter_options[i].paramValue = seg.value
              /\ seg.value # <<>>
              /\ \E N \in QueryNames :
                    /\ N # seg.name
                    /\ N # m_parameter_options[i].longName
                    /\ has_param_option(N)
                    /\ get_param_option(N) = m_parameter_options[i]

\* The long names of the lines of the help string, in order.
HelpLongNames == [i \in 1..(Len(get_helpstring) - 3) |-> get_helpstring[i + 2][4]]

\* C8: get_helpstring holds one line "    -<short>, --<long>" per declared
\* option and no other, the lines in ascending order of the lower-cased long
\* name.
C8_HelpOrder ==
    LET help == get_helpstring
        n    == Len(help) - 3
    IN  /\ n = get_param_option_count
        /\ help[1] = m_executable_name
        /\ \A i \in 1..n :
              \E j \in 1..Len(m_parameter_options) :
                 help[i + 2] = <<"    -", m_parameter_options[j].shortName, ", --",
                                 m_parameter_options[j].longName, "\n">>
        /\ \A i \in 1..n : \A j \in 1..n :
              i < j => StrLess(make_lower(HelpLongNames[i]), make_lower(HelpLongNames[j]))

\* "buf" was declared after "Out", which a parse had already given a value,
\* and is listed before it, although "Out" < "buf" as written.
C8_Witness ==
    /\ call.op = "add_param_option"
    /\ call.ret
    /\ Len(HelpLongNames) = 2
    /\ HelpLongNames[1] = call.opt.longName
    /\ StrLess(HelpLongNames[2], HelpLongNames[1])
    /\ m_parameter_options[2].paramValue # <<>>

\* C9: an init call changes neither the number of options nor any option's
\* long name, short name or default value; an option whose assigned value
\* changed is named by a segment of the parsed arguments.
C9_ParseWritesValuesOnly ==
    [][ call'.op = "init" =>
          /\ Len(m_parameter_options') = Len(m_parameter_options)
          /\ \A i \in 1..Len(m_parameter_options) :
                /\ m_parameter_options'[i].longName = m_parameter_options[i].longName
                /\ m_parameter_options'[i].shortName = m_parameter_options[i].shortName
                /\ m_parameter_options'[i].defaultValue = m_parameter_options[i].defaultValue
                /\ m_parameter_options'[i].paramValue # m_parameter_options[i].paramValue
                      => \E seg \in {Segments(m_arguments')[k] :
                                       k \in 1..Len(Segments(m_arguments'))} :
                            Target(m_parameter_options, seg) = i
      ]_vars

\* A failed init gave one of two options a value through a segment written
\* in another case and left the other option without one.
C9_Witness ==
    /\ call.op = "init"
    /\ call.argc >= 1
    /\ ~call.ret
    /\ ~crashed
    /\ get_param_option_count = 2
    /\ \E i, j \in 1..2 :
          /\ m_parameter_options[i].paramValue # <<>>
          /\ m_parameter_options[i].shortName = m_parameter_options[i].longName
          /\ m_parameter_options[i].defaultValue # <<>>
          /\ m_parameter_options[j].paramValue = <<>>

\* C10: a segment without delimiter is taken whole as the name and carries
\* the empty value: when every segment of the parsed arguments names a
\* declared option, init returns true and logs no error, and an option whose
\* last segment has no delimiter holds the empty value.
C10_FlagOnly ==
    [][ (call'.op = "init" /\ call'.argc >= 1) =>
          \A segs \in {Segments(m_arguments')} :
             ( /\ \E k \in 1..Len(segs) : ~segs[k].delimited
               /\ \A k \in 1..Len(segs) : Target(m_parameter_options, segs[k]) # 0 )
             => /\ ~crashed'
                /\ call'.ret
                /\ m_errors' = m_errors
                /\ \A k \in 1..Len(segs) :
                      ( /\ ~segs[k].delimited
                        /\ \A j \in (k + 1)..Len(segs) :
                              Target(m_parameter_options, segs[j])
                                # Target(m_parameter_options, segs[k]) )
                      => m_parameter_options'[Target(m_parameter_options, segs[k])].paramValue
                           = <<>>
      ]_vars

\* ------------------------------------------------------- quoted values
\* The tokens of the calls that pass quoted values:  --Out=""a""  --Out="a"
\* -b " a "  --Out=  and  "a""  with a blank before and after it.
QuoteTokens ==
    { <<"-","-","O","u","t","=","\"","\"","a","\"","\"">>,
      <<"-","-","O","u","t","=","\"","a","\"">>,
      <<"-","b"," ","\""," ","a"," ","\"">>,
      <<"-","-","O","u","t","=">>,
      <<" ","\"","a","\"","\""," ">> }

QuoteArgvs == {<<ExeName>> \o toks : toks \in SeqsUpTo(QuoteTokens, MaxArguments)}

NextQuotes ==
    \/ \E paramOption \in Decls : add_param_option(paramOption)
    \/ \E argv \in QuoteArgvs : init(Len(argv), argv)
    \/ \E argv \in NoArgvs : \E argc \in {-1, 0} : init(argc, argv)
    \/ clear_errors

SpecQuotes == Init /\ [][NextQuotes]_vars

\* The text after the first delimiter of each segment of args, as written.
RECURSIVE RawValuesFrom(_, _)
RawValuesFrom(args, cursor) ==
    IF cursor > Len(args) THEN <<>>
    ELSE LET start == FindPrefix(args, cursor) IN
         IF start = Len(args) + 1 THEN <<>>
         ELSE LET end      == FindPrefix(args, start + 1)
                  stripped == ltrim_char(Combine(args, start, end), "-")
              IN  <<SubSeq(stripped, ValuePos(stripped) + 1, Len(stripped))>>
                  \o RawValuesFrom(args, end)

\* s without the run of c it starts with and the run of c it ends with.
StripAll(s, c) ==
    LET lead == CHOOSE n \in 0..Len(s) :
                   /\ \A i \in 1..n : s[i] = c
                   /\ n = Len(s) \/ s[n + 1] # c
        rest == SubSeq(s, lead + 1, Len(s))
        keep == CHOOSE n \in 0..Len(rest) :
                   /\ \A i \in (n + 1)..Len(rest) : rest[i] = c
                   /\ n = 0 \/ rest[n] # c
    IN  SubSeq(rest, 1, keep)

\* s without one c at its front and one c at its back, where it has them.
StripOne(s, c) ==
    LET from == IF Len(s) >= 1 /\ s[1] = c THEN 2 ELSE 1
        to   == IF Len(s) >= from /\ s[Len(s)] = c THEN Len(s) - 1 ELSE Len(s)
    IN  SubSeq(s, from, to)

\* The values the options hold after an init that returned, against what
\* Expected(raw) makes of the text after the delimiter of the last segment
\* that names each option.
ValuesAre(Expected(_)) ==
    (call.op = "init" /\ call.argc >= 1 /\ ~crashed) =>
       \A segs \in {Segments(m_arguments)} :
       \A raws \in {RawValuesFrom(m_arguments, 1)} :
       \A target \in {[k \in 1..Len(segs) |-> Target(m_parameter_options, segs[k])]} :
       \A n \in {Parsed(m_parameter_options, segs)} :
          \A k \in 1..n :
             ( /\ segs[k].delimited
               /\ \A j \in (k + 1)..n : target[j] # target[k] )
             => m_parameter_options[target[k]].paramValue = Expected(raws[k])

AllQuotes(raw) == StripAll(StripAll(raw, " "), "\"")

OneLayer(raw) == StripOne(StripAll(raw, " "), "\"")

\* C11 as stated: the value a segment assigns is the text after its first
\* delimiter without the surrounding white space and then without at most
\* one leading and one trailing double quote, so ""a"" is stored as "a".
C11_OneLayerStripped == ValuesAre(OneLayer)

\* C11 as amended: the value a segment assigns is the text after its first
\* delimiter without the surrounding white space and then without every
\* leading and every trailing double quote, so ""a"" is stored as a, like "a".
C11_AllQuotesStripped == ValuesAre(AllQuotes)

\* An init that returned true left a in an option from a segment whose value
\* was written ""a"", in two layers of quotes.
C11_Witness ==
    /\ call.op = "init"
    /\ call.ret
    /\ ~crashed
    /\ \E k \in 1..Len(Segments(m_arguments)) :
          /\ RawValuesFrom(m_arguments, 1)[k] = <<"\"","\"","a","\"","\"">>
          /\ Target(m_parameter_options, Segments(m_arguments)[k]) # 0
          /\ \A j \in (k + 1)..Len(Segments(m_arguments)) :
                Target(m_parameter_options, Segments(m_arguments)[j])
                  # Target(m_parameter_options, Segments(m_arguments)[k])
          /\ m_parameter_options[Target(m_parameter_options,
                                        Segments(m_arguments)[k])].paramValue = <<"a">>

====
